---------------------------- MODULE Spec2Model ----------------------------
(***************************************************************************)
(* Student Assistant Chatbot (app.py): a Streamlit script.  Every user     *)
(* interaction runs the clicked widget's callback and then the script      *)
(* from top to bottom.  The model keeps st.session_state, the widget       *)
(* values that survive a rerun, the position of the running script, and a  *)
(* log of the external calls made since the last interaction.              *)
(***************************************************************************)
EXTENDS Integers, Sequences, FiniteSets, TLC

\* most files the user has in the uploader at once
MaxFiles == 2

\* gTTS limit applied to the chat response before playback
TtsLimit == 5000

(***************************************************************************)
(* Text                                                                    *)
(***************************************************************************)
Min(a, b) == IF a < b THEN a ELSE b

\* s repeated n times
RECURSIVE Rep(_, _)
Rep(s, n) ==
    IF n = 0 THEN ""
    ELSE IF n % 2 = 1 THEN s \o Rep(s, n - 1)
    ELSE LET h == Rep(s, n \div 2) IN h \o h

\* Python s[:n]
Slice(s, n) == SubSeq(s, 1, Min(n, Len(s)))

Whitespace == {" ", "\n", "\t", "\r"}

RECURSIVE LStrip(_)
LStrip(s) ==
    IF s = "" THEN ""
    ELSE IF SubSeq(s, 1, 1) \in Whitespace THEN LStrip(SubSeq(s, 2, Len(s)))
    ELSE s

RECURSIVE RStrip(_)
RStrip(s) ==
    IF s = "" THEN ""
    ELSE IF SubSeq(s, Len(s), Len(s)) \in Whitespace
         THEN RStrip(SubSeq(s, 1, Len(s) - 1))
    ELSE s

\* Python str.strip()
Strip(s) == RStrip(LStrip(s))

\* Python sep.join(parts)
RECURSIVE Join(_, _)
Join(sep, parts) ==
    IF parts = <<>> THEN ""
    ELSE IF Len(parts) = 1 THEN parts[1]
    ELSE parts[1] \o sep \o Join(sep, Tail(parts))

(***************************************************************************)
(* The environment: os.getenv("GEMINI_API_KEY") is None when the variable  *)
(* is unset, otherwise its string value.                                   *)
(***************************************************************************)
PyNone == [isNone |-> TRUE, str |-> ""]
PyStr(s) == [isNone |-> FALSE, str |-> s]
ApiKeys == {PyNone, PyStr(""), PyStr("k3y")}

\* Python truthiness of an optional string
Truthy(v) == ~v.isNone /\ v.str # ""

(***************************************************************************)
(* JSON values as response.json() builds them.  An object is a sequence    *)
(* of <<key, value>> members, an array a sequence of values.               *)
(***************************************************************************)
JNull == [type |-> "null"]
JString(s) == [type |-> "string", str |-> s]
JArray(items) == [type |-> "array", items |-> items]
JObject(members) == [type |-> "object", members |-> members]

Key(k) == [isKey |-> TRUE, key |-> k, idx |-> 0]
Idx(i) == [isKey |-> FALSE, key |-> "", idx |-> i]

\* Python truthiness of a parsed body
JTruthy(j) ==
    CASE j.type = "null" -> FALSE
      [] j.type = "string" -> j.str # ""
      [] j.type = "array" -> j.items # <<>>
      [] j.type = "object" -> j.members # <<>>

Found(j) == [exc |-> "", value |-> j]
Raised(e) == [exc |-> e, value |-> JNull]

\* Python j[k] for a non-negative index or a string key
GetItem(j, k) ==
    CASE j.type = "object" ->
           IF k.isKey /\ \E n \in DOMAIN j.members : j.members[n][1] = k.key
           THEN Found(j.members[CHOOSE n \in DOMAIN j.members :
                                    j.members[n][1] = k.key][2])
           ELSE Raised("KeyError")
      [] j.type = "array" ->
           IF k.isKey THEN Raised("TypeError")
           ELSE IF k.idx + 1 \in DOMAIN j.items THEN Found(j.items[k.idx + 1])
           ELSE Raised("IndexError")
      [] j.type = "string" ->
           IF k.isKey THEN Raised("TypeError")
           ELSE IF k.idx + 1 \in 1..Len(j.str)
                THEN Found(JString(SubSeq(j.str, k.idx + 1, k.idx + 1)))
           ELSE Raised("IndexError")
      [] j.type = "null" -> Raised("TypeError")

\* j[path[1]][path[2]]... , stopping at the first exception
RECURSIVE Subscript(_, _)
Subscript(j, path) ==
    IF path = <<>> THEN Found(j)
    ELSE LET r == GetItem(j, path[1])
         IN IF r.exc # "" THEN r ELSE Subscript(r.value, Tail(path))

TextPath ==
    << Key("candidates"), Idx(0), Key("content"), Key("parts"), Idx(0), Key("text") >>


(***************************************************************************)
(* What the generative endpoint may do with one POST.                      *)
(***************************************************************************)
Candidates(text) ==
    JObject(<< <<"candidates",
                 JArray(<< JObject(<< <<"content",
                     JObject(<< <<"parts",
                         JArray(<< JObject(<< <<"text", JString(text)>> >>) >>)
                     >> >>) >> >>) >>) >> >>)

\* 2xx bodies that parse, by name
BodyNames ==
    {"long_answer", "empty_object",
     "no_candidates", "empty_candidates", "null_candidates"}

ResponseBody(name) ==
    CASE name = "long_answer" -> Candidates(Rep("a", TtsLimit + 1))
      [] name = "empty_object" -> JObject(<< >>)
      [] name = "no_candidates" ->
           JObject(<< <<"promptFeedback",
                        JObject(<< <<"blockReason", JString("SAFETY")>> >>)>> >>)
      [] name = "empty_candidates" -> JObject(<< <<"candidates", JArray(<< >>)>> >>)
      [] name = "null_candidates" -> JObject(<< <<"candidates", JNull>> >>)

TransportFailures == {"connection_error", "timeout", "http_error", "invalid_json"}

ApiOutcomes == TransportFailures \cup BodyNames

NoneResult(msg) == [isNone |-> TRUE, body |-> JNull, st_error |-> msg]

\* make_api_request: the parsed body, or None after st.error
make_api_request(outcome) ==
    CASE outcome = "connection_error" -> NoneResult("Connection error")
      [] outcome = "timeout" -> NoneResult("Request timed out. Please try again later.")
      [] outcome = "http_error" -> NoneResult("Request error")
      [] outcome = "invalid_json" -> NoneResult("Error parsing response from API.")
      [] outcome \in BodyNames ->
           [isNone |-> FALSE, body |-> ResponseBody(outcome), st_error |-> ""]

ErrNoKey == "Error: Gemini API key not found in environment variables."
ErrFormat == "Error: Unexpected response format from Gemini API."
ErrFailed == "Failed to get response from Gemini API."

(***************************************************************************)
(* Uploaded PDFs and the pages PdfReader finds in them.                    *)
(***************************************************************************)
PdfFiles == {"hello_world.pdf", "corrupt.pdf", "no_pages.pdf"}

PdfReader(file) ==
    CASE file = "hello_world.pdf" -> [exc |-> "", pages |-> <<"Hello", "World">>]
      [] file = "corrupt.pdf" -> [exc |-> "PdfReadError", pages |-> << >>]
      [] file = "no_pages.pdf" -> [exc |-> "", pages |-> << >>]

RECURSIVE PagesText(_)
PagesText(pages) ==
    IF pages = << >> THEN ""
    ELSE pages[1] \o "\n" \o PagesText(Tail(pages))

\* extract_text_from_pdf: the pages' text, or "" after st.error
extract_text_from_pdf(pdf_file) ==
    LET pdf_reader == PdfReader(pdf_file)
    IN IF pdf_reader.exc = ""
       THEN [value |-> PagesText(pdf_reader.pages), st_error |-> ""]
       ELSE [value |-> "", st_error |-> "Error extracting text from PDF"]

(***************************************************************************)
(* What requests.get may do with the webpage URL.                          *)
(***************************************************************************)
WebOutcomes == {"article", "no_paragraphs", "http_error", "timeout"}

RequestsGet(outcome) ==
    CASE outcome = "article" -> [exc |-> "", paragraphs |-> <<"P1", "P2">>]
      [] outcome = "no_paragraphs" -> [exc |-> "", paragraphs |-> << >>]
      [] outcome = "http_error" -> [exc |-> "HTTPError", paragraphs |-> << >>]
      [] outcome = "timeout" -> [exc |-> "Timeout", paragraphs |-> << >>]

\* extract_text_from_webpage: the <p> texts joined by spaces, or "" after st.error
extract_text_from_webpage(outcome) ==
    LET response == RequestsGet(outcome)
    IN IF response.exc = ""
       THEN [value |-> Join(" ", response.paragraphs), st_error |-> ""]
       ELSE [value |-> "", st_error |-> "Error fetching webpage"]

(***************************************************************************)
(* Prompts and speech                                                      *)
(***************************************************************************)
QuizPrompt(text) ==
    "Generate 5 multiple-choice questions from the following text:\n" \o text

ContextPrompt(extracted, user_input) ==
    "Based on the following content:\n\n" \o extracted
        \o "\n\nUser question: " \o user_input

\* lines 229-230: the chat response as handed to text_to_speech
LimitResponseText(response_text) ==
    IF Len(response_text) > TtsLimit
    THEN Slice(response_text, TtsLimit) \o "..."
    ELSE response_text

\* text_to_speech: audio bytes, or None after st.warning / st.error
text_to_speech(text, gtts_ok) ==
    IF text = "" \/ Len(Strip(text)) = 0
    THEN [isNone |-> TRUE, st_message |-> "No text to convert to speech."]
    ELSE IF gtts_ok THEN [isNone |-> FALSE, st_message |-> ""]
    ELSE [isNone |-> TRUE, st_message |-> "Error generating speech"]

(***************************************************************************)
(* State                                                                   *)
(***************************************************************************)
VARIABLES
    GEMINI_API_KEY,         \* module global read from the environment at start
    gemini_response,        \* st.session_state.*
    extracted_text,
    quiz_content,
    play_response_audio,
    play_quiz_audio,
    play_custom_audio,
    custom_text,
    uploaded_files,         \* the file uploader's value, kept across reruns
    webpage_url,            \* the URL text input's value, kept across reruns
    extract_button,         \* "Extract Text from URL" was clicked for this run
    rendered,               \* the widgets the last run put on the page
    pc,                     \* where the script run stands; "idle" between runs
    file_idx,               \* position of the upload loop (1-based)
    uncaught,               \* exception that ended the run, "" if none
    temp_file,              \* the temporary file of the current upload
    temp_created,           \* temporary files this run has made
    unlink_calls,           \* os.unlink calls this run has made
    extractions,            \* extract_text_from_* calls made by this run
    api_calls,              \* get_gemini_response calls of this interaction
    tts_calls,              \* text_to_speech calls made by this run
    trigger,                \* the interaction that started this run
    at_click                \* session values when the interaction arrived

session == << gemini_response, extracted_text, quiz_content, play_response_audio,
              play_quiz_audio, play_custom_audio, custom_text >>
widgets == << uploaded_files, webpage_url, extract_button, rendered >>
run == << pc, file_idx, uncaught >>
logs == << temp_file, temp_created, unlink_calls, extractions, api_calls, tts_calls, trigger, at_click >>
vars == << GEMINI_API_KEY, session, widgets, run, logs >>

Questions == {"", "What is X?"}
TtsTexts == {"", " ", "hello", Rep("b", TtsLimit + 1)}
Urls == {"", "https://example.org/page"}
\* the uploader holds up to MaxFiles different files, in upload order
UploadChoices ==
    {files \in UNION {[1..n -> PdfFiles] : n \in 0..MaxFiles} :
        \A i, j \in DOMAIN files : i # j => files[i] # files[j]}

NoTempFile ==
    [file |-> "", extracted |-> FALSE, unlink_attempted |-> FALSE,
     exists |-> FALSE]

Snapshot(user_input) ==
    [extracted_text |-> extracted_text, gemini_response |-> gemini_response,
     quiz_content |-> quiz_content, user_input |-> user_input]

\* lines 23-36
Init ==
    /\ GEMINI_API_KEY \in ApiKeys
    /\ gemini_response = ""
    /\ extracted_text = ""
    /\ quiz_content = ""
    /\ play_response_audio = FALSE
    /\ play_quiz_audio = FALSE
    /\ play_custom_audio = FALSE
    /\ custom_text = ""
    /\ uploaded_files = << >>
    /\ webpage_url = ""
    /\ extract_button = FALSE
    /\ rendered = {"sidebar", "get_answer", "generate_quiz", "speak"}
    /\ pc = "idle"
    /\ file_idx = 1
    /\ uncaught = ""
    /\ temp_file = NoTempFile
    /\ temp_created = 0
    /\ unlink_calls = 0
    /\ extractions = << >>
    /\ api_calls = << >>
    /\ tts_calls = << >>
    /\ trigger = "none"
    /\ at_click = [extracted_text |-> "", gemini_response |-> "",
                   quiz_content |-> "", user_input |-> ""]

(***************************************************************************)
(* get_gemini_response: the returned string, or the exception that leaves  *)
(* the function; posted tells whether requests.post was reached.           *)
(***************************************************************************)
Returned(prompt, posted, outcome, value) ==
    [prompt |-> prompt, posted |-> posted, outcome |-> outcome, exc |-> "",
     value |-> value]

Escaped(prompt, outcome, exc) ==
    [prompt |-> prompt, posted |-> TRUE, outcome |-> outcome, exc |-> exc,
     value |-> ""]

KeyMissing_isNoneOnly == GEMINI_API_KEY.isNone

\* line 59: not GEMINI_API_KEY
KeyMissing == ~Truthy(GEMINI_API_KEY)

get_gemini_response(prompt, outcome) ==
    IF KeyMissing THEN Returned(prompt, FALSE, "", ErrNoKey)
    ELSE LET response_data == make_api_request(outcome)
         IN IF ~response_data.isNone /\ JTruthy(response_data.body)
            THEN LET r == Subscript(response_data.body, TextPath)
                 IN IF r.exc = "" THEN Returned(prompt, TRUE, outcome, r.value.str)
                    ELSE IF r.exc \in {"KeyError", "IndexError"}
                         THEN Returned(prompt, TRUE, outcome, ErrFormat)
                    ELSE Escaped(prompt, outcome, r.exc)
            ELSE Returned(prompt, TRUE, outcome, ErrFailed)

generate_quiz(text, outcome) == get_gemini_response(QuizPrompt(text), outcome)

(***************************************************************************)
(* The start of a script run.  Streamlit runs the callback of the clicked  *)
(* widget first; an exception leaving it ends the run before the script    *)
(* body starts, and only the exception is on the page.  An exception       *)
(* leaving the script body ends the run where it stands.                   *)
(***************************************************************************)
BeginRun(files, what, user_input) ==
    /\ pc' = IF files # << >> THEN "upload_create" ELSE "webpage"
    /\ file_idx' = 1
    /\ uncaught' = ""
    /\ rendered' = {"sidebar"}
    /\ temp_file' = NoTempFile
    /\ temp_created' = 0
    /\ unlink_calls' = 0
    /\ extractions' = << >>
    /\ tts_calls' = << >>
    /\ trigger' = what
    /\ at_click' = Snapshot(user_input)

AbortRun(exc, what, user_input) ==
    /\ pc' = "end"
    /\ file_idx' = 1
    /\ uncaught' = exc
    /\ rendered' = {}
    /\ temp_file' = NoTempFile
    /\ temp_created' = 0
    /\ unlink_calls' = 0
    /\ extractions' = << >>
    /\ tts_calls' = << >>
    /\ trigger' = what
    /\ at_click' = Snapshot(user_input)

\* the viewer reruns the script (menu, or a widget without callback changed)
Rerun ==
    /\ pc = "idle"
    /\ BeginRun(uploaded_files, "rerun", "")
    /\ api_calls' = << >>
    /\ UNCHANGED << GEMINI_API_KEY, session, uploaded_files, webpage_url,
                    extract_button >>

\* line 166: the set of uploaded files changes
UploadFiles ==
    /\ pc = "idle"
    /\ "sidebar" \in rendered
    /\ \E files \in UploadChoices :
         /\ files # uploaded_files
         /\ uploaded_files' = files
         /\ BeginRun(files, "upload", "")
    /\ api_calls' = << >>
    /\ UNCHANGED << GEMINI_API_KEY, session, webpage_url, extract_button >>

\* line 167: the URL field changes
EnterUrl ==
    /\ pc = "idle"
    /\ "sidebar" \in rendered
    /\ \E url \in Urls :
         /\ url # webpage_url
         /\ webpage_url' = url
    /\ BeginRun(uploaded_files, "url", "")
    /\ api_calls' = << >>
    /\ UNCHANGED << GEMINI_API_KEY, session, uploaded_files, extract_button >>

\* line 204: click on "Extract Text from URL"
ClickExtract ==
    /\ pc = "idle"
    /\ "extract" \in rendered
    /\ extract_button' = TRUE
    /\ BeginRun(uploaded_files, "extract", "")
    /\ api_calls' = << >>
    /\ UNCHANGED << GEMINI_API_KEY, session, uploaded_files, webpage_url >>

(***************************************************************************)
(* Button callbacks (lines 133-159), each followed by the start of the     *)
(* script run it causes.                                                   *)
(***************************************************************************)
AnswerPrompt_alwaysFramed(extracted, user_input) ==
    ContextPrompt(extracted, user_input)

\* lines 138-143: the prompt for a question
AnswerPrompt(extracted, user_input) ==
    IF extracted # "" THEN ContextPrompt(extracted, user_input) ELSE user_input

on_get_answer_click ==
    /\ pc = "idle"
    /\ "get_answer" \in rendered
    /\ \E user_input \in Questions, outcome \in ApiOutcomes :
         IF user_input # ""
         THEN LET r == get_gemini_response(AnswerPrompt(extracted_text, user_input),
                                           outcome)
              IN /\ api_calls' = << r >>
                 /\ IF r.exc = ""
                    THEN /\ gemini_response' = r.value
                         /\ BeginRun(uploaded_files, "get_answer", user_input)
                    ELSE /\ UNCHANGED gemini_response
                         /\ AbortRun(r.exc, "get_answer", user_input)
         ELSE /\ api_calls' = << >>
              /\ UNCHANGED gemini_response
              /\ BeginRun(uploaded_files, "get_answer", user_input)
    /\ UNCHANGED << GEMINI_API_KEY, extracted_text, quiz_content,
                    play_response_audio, play_quiz_audio, play_custom_audio,
                    custom_text, uploaded_files, webpage_url, extract_button >>

on_listen_response_click ==
    /\ pc = "idle"
    /\ "listen_response" \in rendered
    /\ play_response_audio' = TRUE
    /\ BeginRun(uploaded_files, "listen_response", "")
    /\ api_calls' = << >>
    /\ UNCHANGED << GEMINI_API_KEY, gemini_response, extracted_text, quiz_content,
                    play_quiz_audio, play_custom_audio, custom_text,
                    uploaded_files, webpage_url, extract_button >>

QuizGuard_unguarded(extracted) == TRUE

\* line 150: if st.session_state.extracted_text
QuizGuard(extracted) == extracted # ""

StoreQuiz_intoResponse(value) ==
    /\ gemini_response' = value
    /\ UNCHANGED quiz_content

\* line 152: the assignment of the generated quiz
StoreQuiz(value) ==
    /\ quiz_content' = value
    /\ UNCHANGED gemini_response

on_generate_quiz_click ==
    /\ pc = "idle"
    /\ "generate_quiz" \in rendered
    /\ \E outcome \in ApiOutcomes :
         IF QuizGuard(extracted_text)
         THEN LET r == generate_quiz(extracted_text, outcome)
              IN /\ api_calls' = << r >>
                 /\ IF r.exc = ""
                    THEN /\ StoreQuiz(r.value)
                         /\ BeginRun(uploaded_files, "generate_quiz", "")
                    ELSE /\ UNCHANGED << quiz_content, gemini_response >>
                         /\ AbortRun(r.exc, "generate_quiz", "")
         ELSE /\ api_calls' = << >>
              /\ UNCHANGED << quiz_content, gemini_response >>
              /\ BeginRun(uploaded_files, "generate_quiz", "")
    /\ UNCHANGED << GEMINI_API_KEY, extracted_text,
                    play_response_audio, play_quiz_audio, play_custom_audio,
                    custom_text, uploaded_files, webpage_url, extract_button >>

on_listen_quiz_click ==
    /\ pc = "idle"
    /\ "listen_quiz" \in rendered
    /\ play_quiz_audio' = TRUE
    /\ BeginRun(uploaded_files, "listen_quiz", "")
    /\ api_calls' = << >>
    /\ UNCHANGED << GEMINI_API_KEY, gemini_response, extracted_text, quiz_content,
                    play_response_audio, play_custom_audio, custom_text,
                    uploaded_files, webpage_url, extract_button >>

on_speak_custom_text_click ==
    /\ pc = "idle"
    /\ "speak" \in rendered
    /\ \E tts_text \in TtsTexts : custom_text' = tts_text
    /\ play_custom_audio' = TRUE
    /\ BeginRun(uploaded_files, "speak", "")
    /\ api_calls' = << >>
    /\ UNCHANGED << GEMINI_API_KEY, gemini_response, extracted_text, quiz_content,
                    play_response_audio, play_quiz_audio,
                    uploaded_files, webpage_url, extract_button >>

(***************************************************************************)
(* The script body, lines 186-270, one section at a time.                  *)
(***************************************************************************)
\* lines 189-191: the upload is copied into a temporary file kept on close
CreateTempFile ==
    /\ pc = "upload_create"
    /\ temp_file' = [file |-> uploaded_files[file_idx], extracted |-> FALSE,
                     unlink_attempted |-> FALSE, exists |-> TRUE]
    /\ temp_created' = temp_created + 1
    /\ pc' = "upload_extract"
    /\ UNCHANGED << GEMINI_API_KEY, session, widgets, file_idx, uncaught,
                    unlink_calls, extractions, api_calls, tts_calls, trigger,
                    at_click >>

\* line 195: st.text_area("Extracted Text", value, height=200) has no key, so
\* its widget ID comes from label, value and height; Streamlit raises
\* DuplicateWidgetID when the same ID is made twice in one run
TextAreaIsDuplicate(value) ==
    \E i \in DOMAIN extractions :
        extractions[i].kind = "pdf" /\ extractions[i].value = value

\* lines 193-195
ExtractTempFile ==
    /\ pc = "upload_extract"
    /\ LET r == extract_text_from_pdf(temp_file.file)
       IN /\ extracted_text' = r.value
          /\ extractions' = Append(extractions,
                                   [kind |-> "pdf", failed |-> r.st_error # "",
                                    value |-> r.value])
          /\ IF TextAreaIsDuplicate(r.value)
             THEN /\ uncaught' = "DuplicateWidgetID"
                  /\ pc' = "end"
             ELSE /\ uncaught' = uncaught
                  /\ pc' = "upload_unlink"
    /\ temp_file' = [temp_file EXCEPT !.extracted = TRUE]
    /\ UNCHANGED << GEMINI_API_KEY, gemini_response, quiz_content,
                    play_response_audio, play_quiz_audio, play_custom_audio,
                    custom_text, widgets, file_idx, temp_created,
                    unlink_calls, api_calls, tts_calls, trigger, at_click >>

\* lines 198-201: os.unlink may fail; the bare except swallows it
UnlinkTempFile ==
    /\ pc = "upload_unlink"
    /\ \E unlinked \in BOOLEAN :
         temp_file' = [temp_file EXCEPT !.unlink_attempted = TRUE,
                                        !.exists = ~unlinked]
    /\ unlink_calls' = unlink_calls + 1
    /\ IF file_idx < Len(uploaded_files)
       THEN /\ file_idx' = file_idx + 1
            /\ pc' = "upload_create"
       ELSE /\ file_idx' = file_idx
            /\ pc' = "webpage"
    /\ UNCHANGED << GEMINI_API_KEY, session, widgets, uncaught, temp_created,
                    extractions, api_calls, tts_calls, trigger, at_click >>

\* lines 204-207
ProcessWebpage ==
    /\ pc = "webpage"
    /\ rendered' = IF webpage_url # "" THEN rendered \cup {"extract"} ELSE rendered
    /\ IF webpage_url # "" /\ extract_button
       THEN \E outcome \in WebOutcomes :
              LET r == extract_text_from_webpage(outcome)
              IN /\ extracted_text' = r.value
                 /\ extractions' = Append(extractions,
                                          [kind |-> "webpage",
                                           failed |-> r.st_error # "",
                                           value |-> r.value])
       ELSE UNCHANGED << extracted_text, extractions >>
    /\ extract_button' = FALSE
    /\ pc' = "chat"
    /\ UNCHANGED << GEMINI_API_KEY, gemini_response, quiz_content,
                    play_response_audio, play_quiz_audio, play_custom_audio,
                    custom_text, uploaded_files, webpage_url, file_idx, uncaught,
                    temp_file, temp_created, unlink_calls, api_calls, tts_calls,
                    trigger, at_click >>

TtsCall(section, source, text, audio_bytes) ==
    [section |-> section, source |-> source, text |-> text,
     audio |-> ~audio_bytes.isNone]

\* lines 210-236
ChatSection ==
    /\ pc = "chat"
    /\ rendered' = rendered \cup {"get_answer"}
                     \cup (IF gemini_response # "" THEN {"listen_response"} ELSE {})
    /\ IF gemini_response # "" /\ play_response_audio
       THEN /\ \E gtts_ok \in BOOLEAN :
                 LET response_text == LimitResponseText(gemini_response)
                 IN tts_calls' = Append(tts_calls,
                        TtsCall("response", gemini_response, response_text,
                                text_to_speech(response_text, gtts_ok)))
            /\ play_response_audio' = FALSE
       ELSE UNCHANGED << tts_calls, play_response_audio >>
    /\ pc' = "quiz"
    /\ UNCHANGED << GEMINI_API_KEY, gemini_response, extracted_text, quiz_content,
                    play_quiz_audio, play_custom_audio, custom_text,
                    uploaded_files, webpage_url, extract_button, file_idx,
                    uncaught, temp_file, temp_created, unlink_calls,
                    extractions, api_calls, trigger, at_click >>

\* lines 239-256
QuizSection ==
    /\ pc = "quiz"
    /\ rendered' = rendered \cup {"generate_quiz"}
                     \cup (IF quiz_content # "" THEN {"listen_quiz"} ELSE {})
    /\ IF quiz_content # "" /\ play_quiz_audio
       THEN /\ \E gtts_ok \in BOOLEAN :
                 tts_calls' = Append(tts_calls,
                     TtsCall("quiz", quiz_content, quiz_content,
                             text_to_speech(quiz_content, gtts_ok)))
            /\ play_quiz_audio' = FALSE
       ELSE UNCHANGED << tts_calls, play_quiz_audio >>
    /\ pc' = "custom"
    /\ UNCHANGED << GEMINI_API_KEY, gemini_response, extracted_text, quiz_content,
                    play_response_audio, play_custom_audio, custom_text,
                    uploaded_files, webpage_url, extract_button, file_idx,
                    uncaught, temp_file, temp_created, unlink_calls,
                    extractions, api_calls, trigger, at_click >>

\* lines 259-270
CustomSection ==
    /\ pc = "custom"
    /\ rendered' = rendered \cup {"speak"}
    /\ IF play_custom_audio /\ custom_text # ""
       THEN /\ \E gtts_ok \in BOOLEAN :
                 tts_calls' = Append(tts_calls,
                     TtsCall("custom", custom_text, custom_text,
                             text_to_speech(custom_text, gtts_ok)))
            /\ play_custom_audio' = FALSE
       ELSE UNCHANGED << tts_calls, play_custom_audio >>
    /\ pc' = "end"
    /\ UNCHANGED << GEMINI_API_KEY, gemini_response, extracted_text, quiz_content,
                    play_response_audio, play_quiz_audio, custom_text,
                    uploaded_files, webpage_url, extract_button, file_idx,
                    uncaught, temp_file, temp_created, unlink_calls,
                    extractions, api_calls, trigger, at_click >>

\* the run is over: the page stands, the script's locals and the run's
\* records are gone, and the session waits for the next interaction
ScriptEnd ==
    /\ pc = "end"
    /\ pc' = "idle"
    /\ file_idx' = 1
    /\ uncaught' = ""
    /\ temp_file' = NoTempFile
    /\ temp_created' = 0
    /\ unlink_calls' = 0
    /\ extractions' = << >>
    /\ api_calls' = << >>
    /\ tts_calls' = << >>
    /\ trigger' = "none"
    /\ at_click' = [extracted_text |-> "", gemini_response |-> "",
                    quiz_content |-> "", user_input |-> ""]
    /\ UNCHANGED << GEMINI_API_KEY, session, widgets >>

Next ==
    \/ Rerun
    \/ UploadFiles
    \/ EnterUrl
    \/ ClickExtract
    \/ on_get_answer_click
    \/ on_listen_response_click
    \/ on_generate_quiz_click
    \/ on_listen_quiz_click
    \/ on_speak_custom_text_click
    \/ CreateTempFile
    \/ ExtractTempFile
    \/ UnlinkTempFile
    \/ ProcessWebpage
    \/ ChatSection
    \/ QuizSection
    \/ CustomSection
    \/ ScriptEnd

Spec == Init /\ [][Next]_vars

(***************************************************************************)
(* Properties                                                              *)
(***************************************************************************)
Clicks == {"get_answer", "generate_quiz", "listen_response", "listen_quiz", "speak"}

QuizInstruction == "Generate 5 multiple-choice questions from the following text:\n"

IsQuizPrompt(prompt) ==
    /\ Len(prompt) >= Len(QuizInstruction)
    /\ SubSeq(prompt, 1, Len(QuizInstruction)) = QuizInstruction

\* C1: whenever the API key is unset or empty, every get_gemini_response call
\* returns the key-not-found message, raises nothing, and never reaches
\* requests.post.
C1_NoKeyNoRequest ==
    (GEMINI_API_KEY.isNone \/ GEMINI_API_KEY.str = "") =>
        \A i \in DOMAIN api_calls :
            /\ ~api_calls[i].posted
            /\ api_calls[i].exc = ""
            /\ api_calls[i].value =
                 "Error: Gemini API key not found in environment variables."

C1_Witness ==
    /\ GEMINI_API_KEY = PyStr("")
    /\ trigger = "get_answer"
    /\ Len(api_calls) = 1

\* C2: a 2xx body that parses but lacks candidates[0].content.parts[0].text
\* makes get_gemini_response return the unexpected-format message, and no
\* exception leaves the function.
C2_MissingPathIsFormatError ==
    \A i \in DOMAIN api_calls :
        (/\ api_calls[i].posted
         /\ api_calls[i].outcome \in {"empty_object", "no_candidates",
                                      "empty_candidates", "null_candidates"})
        => /\ api_calls[i].exc = ""
           /\ api_calls[i].value = "Error: Unexpected response format from Gemini API."

\* C3: a quiz prompt reaches get_gemini_response only with a non-empty
\* context behind the instruction; a Generate Quiz click on an empty context
\* makes no call and leaves quiz_content as it was.
C3_QuizOnlyWithContext ==
    /\ \A i \in DOMAIN api_calls :
         IsQuizPrompt(api_calls[i].prompt) =>
             /\ at_click.extracted_text # ""
             /\ api_calls[i].prompt = QuizInstruction \o at_click.extracted_text
    /\ (trigger = "generate_quiz" /\ at_click.extracted_text = "") =>
           /\ api_calls = << >>
           /\ quiz_content = at_click.quiz_content

C3_Witness ==
    /\ trigger = "generate_quiz"
    /\ at_click.extracted_text = ""
    /\ at_click.quiz_content # ""
    /\ pc = "end"

\* C4: when a run started by Get Answer, Generate Quiz, Listen, Listen to Quiz
\* or Speak Text is over, extracted_text equals its value at the click.
C4_ContextRetained ==
    (pc = "end" /\ trigger \in Clicks) => extracted_text = at_click.extracted_text

\* C5: every text handed to text_to_speech is the source text when that has
\* at most TtsLimit characters, and otherwise its first TtsLimit characters
\* followed by "...".
C5_SpeechInputLimited ==
    \A i \in DOMAIN tts_calls :
        tts_calls[i].text =
            IF Len(tts_calls[i].source) <= TtsLimit
            THEN tts_calls[i].source
            ELSE SubSeq(tts_calls[i].source, 1, TtsLimit) \o "..."

\* C6: the value a failed extraction returned differs from the value the same
\* extractor returns for a document that parses and holds no text.
C6_EmptyDistinctFromFailure ==
    \A i \in DOMAIN extractions :
        extractions[i].failed =>
            /\ extractions[i].kind = "pdf" =>
                 \A f \in PdfFiles :
                     (/\ PdfReader(f).exc = ""
                      /\ \A p \in DOMAIN PdfReader(f).pages : PdfReader(f).pages[p] = "")
                     => extract_text_from_pdf(f).value # extractions[i].value
            /\ extractions[i].kind = "webpage" =>
                 \A o \in WebOutcomes :
                     (RequestsGet(o).exc = "" /\ RequestsGet(o).paragraphs = << >>)
                     => extract_text_from_webpage(o).value # extractions[i].value

\* C7: a Get Answer click with a non-empty question makes exactly one
\* get_gemini_response call, whose prompt is the framed context and question
\* when the context at the click is non-empty and the bare question otherwise;
\* a request that is posted carries that prompt.
C7_AnswerPromptExact ==
    (trigger = "get_answer" /\ at_click.user_input # "") =>
        /\ Len(api_calls) = 1
        /\ api_calls[1].prompt =
             IF at_click.extracted_text # ""
             THEN "Based on the following content:\n\n" \o at_click.extracted_text
                    \o "\n\nUser question: " \o at_click.user_input
             ELSE at_click.user_input

C7_Witness ==
    /\ trigger = "get_answer"
    /\ at_click.user_input # ""
    /\ at_click.extracted_text # ""
    /\ extracted_text # at_click.extracted_text
    /\ Len(api_calls) = 1
    /\ api_calls[1].posted

Failures ==
    {"Error: Gemini API key not found in environment variables.",
     "Error: Unexpected response format from Gemini API.",
     "Failed to get response from Gemini API."}

\* C8: through a run started by Generate Quiz the chat answer stays what it
\* was at the click, through one started by Get Answer the quiz stays what it
\* was, and the session always has a next step to take.
C8_GenerationFrame ==
    /\ trigger = "generate_quiz" => gemini_response = at_click.gemini_response
    /\ trigger = "get_answer" => quiz_content = at_click.quiz_content
    /\ ENABLED Next

C8_Witness ==
    /\ trigger = "generate_quiz"
    /\ Len(api_calls) = 1
    /\ api_calls[1].value \in Failures
    /\ quiz_content = api_calls[1].value
    /\ gemini_response \notin Failures \cup {""}
    /\ pc = "end"

\* C9: when the loop turns to the next upload, and when the script run is
\* over, os.unlink has been called for every temporary file the run has made.
C9_TempFilesUnlinked ==
    /\ pc = "upload_create" =>
         /\ unlink_calls = temp_created
         /\ temp_created > 0 => temp_file.unlink_attempted
    /\ pc = "end" =>
         /\ unlink_calls = temp_created
         /\ temp_created > 0 => temp_file.unlink_attempted

\* C10: when a script run is over, play_response_audio, play_quiz_audio and
\* play_custom_audio are all False.
C10_FlagsClearAtRunEnd ==
    (pc = "end" /\ uncaught = "") =>
        /\ ~play_response_audio
        /\ ~play_quiz_audio
        /\ ~play_custom_audio

=============================================================================
